---- MODULE Spec2Model ----
(***************************************************************************)
(* The ensemble build stage of nengo (nengo/builder/ensemble.py).          *)
(*                                                                         *)
(* build_ensemble lowers one Ensemble into a build context (model.sig,     *)
(* the operator list, model.params).  The context, the ensembles and the   *)
(* outcome of every build call are the state; build_ensemble is the one    *)
(* operation.  Floating point arrays are modelled as numpy stores them (a  *)
(* shape and a flat row-major buffer) with exact rational entries, so      *)
(* rounding is not modelled; nan and inf are.                              *)
(***************************************************************************)
EXTENDS Integers, Sequences, FiniteSets, TLC

VARIABLES
    ens,        \* the Ensemble objects: id -> its parameters
    model,      \* the build sessions: id -> [seeds, sig, operators, params, nsig]
    raised,     \* per session and ensemble: "unbuilt", "ok" or the exception raised
    warnings,   \* per session: the warnings emitted through warnings.warn
    trace       \* per session: the effects of the builds, in program order

vars == <<ens, model, raised, warnings, trace>>

----------------------------------------------------------------------------
(* Bounds of the model.                                                    *)

MaxDim == 2         \* ensembles have 1..MaxDim dimensions
MaxNeurons == 2     \* and 1..MaxNeurons neurons
MaxPoints == 2      \* literal eval point arrays and n_eval_points: 1..MaxPoints
NumSeeds == 2       \* model.seeds[ens] ranges over 1..NumSeeds

Radii == {1, 2}
Sessions == {1, 2}

----------------------------------------------------------------------------
(* float64 values: exact rationals n/d in lowest terms with d > 0, plus    *)
(* inf (n = 1, d = 0), -inf (n = -1, d = 0) and nan (n = 0, d = 0).        *)

Abs(x) == IF x < 0 THEN -x ELSE x

Sgn(x) == IF x < 0 THEN -1 ELSE IF x > 0 THEN 1 ELSE 0

RECURSIVE GCD(_, _)
GCD(a, b) == IF b = 0 THEN a ELSE GCD(b, a % b)

Rat(n, d) ==
    IF d = 0 THEN [n |-> Sgn(n), d |-> 0]
    ELSE LET g == GCD(Abs(n), Abs(d))
             s == Sgn(d)
         IN  [n |-> (s * n) \div g, d |-> (s * d) \div g]

float64(x) == Rat(x, 1)

NaN == Rat(0, 0)

IsFinite(a) == a.d # 0

RMul(a, b) == Rat(a.n * b.n, a.d * b.d)

RDiv(a, b) == Rat(a.n * b.d * Sgn(IF b.n = 0 THEN 1 ELSE b.n), a.d * Abs(b.n))

RAdd(a, b) ==
    IF a.d = 0 /\ b.d = 0 THEN (IF a.n = b.n THEN a ELSE NaN)
    ELSE IF a.d = 0 THEN a
    ELSE IF b.d = 0 THEN b
    ELSE Rat(a.n * b.d + b.n * a.d, a.d * b.d)

RNeg(a) == [n |-> -a.n, d |-> a.d]

ISqrt(n) == CHOOSE r \in 0..n : r * r <= n /\ n < (r + 1) * (r + 1)

\* np.sqrt; the model's inputs keep the radicands perfect squares
RSqrt(a) ==
    IF a.d = 0 THEN (IF a.n = 1 THEN a ELSE NaN)
    ELSE IF a.n < 0 THEN NaN
    ELSE Rat(ISqrt(a.n), ISqrt(a.d))

----------------------------------------------------------------------------
(* numpy arrays: a shape and a flat row-major buffer.                      *)

None == [kind |-> "None", shape |-> <<>>, data |-> <<>>]

Array(shape, data) == [kind |-> "array", shape |-> shape, data |-> data]

\* a Distribution object: draws its samples among the rows of `options`
Choice(options) == [kind |-> "dist", shape |-> options.shape, data |-> options.data]

IsNone(x) == x.kind = "None"

IsDistribution(x) == x.kind = "dist"

ndim(a) == Len(a.shape)

RECURSIVE Prod(_)
Prod(s) == IF s = <<>> THEN 1 ELSE Head(s) * Prod(Tail(s))

\* the number of entries of one row (of one index along axis 0)
RowLen(a) == Prod(Tail(a.shape))

Row(a, i) == SubSeq(a.data, (i - 1) * RowLen(a) + 1, i * RowLen(a))

At(a, i, j) == a.data[(i - 1) * a.shape[2] + j]

\* np.array(x, dtype=np.float64): a fresh float array with x's shape
asfloat64(a) == Array(a.shape, [k \in 1..Len(a.data) |-> float64(a.data[k])])

zeros(n) == Array(<<n>>, [k \in 1..n |-> float64(0)])

identity(n) ==
    Array(<<n, n>>,
          [k \in 1..(n * n) |->
              IF (k - 1) \div n = (k - 1) % n THEN float64(1) ELSE float64(0)])

RECURSIVE SumSeq(_)
SumSeq(s) == IF s = <<>> THEN float64(0) ELSE RAdd(Head(s), SumSeq(Tail(s)))

Square(x) == RMul(x, x)

\* npext.norm(x, axis=1, keepdims=True) of a 2-dimensional array
norm(a) ==
    Array(<<a.shape[1], 1>>,
          [i \in 1..a.shape[1] |->
              RSqrt(SumSeq([j \in 1..a.shape[2] |-> Square(At(a, i, j))]))])

----------------------------------------------------------------------------
(* The random stream and the Distribution objects.                         *)

\* the k-th value of the stream seeded with `seed`
Stream(seed, k) == (seed * seed + 3 * k + seed * k) % 7

\* a stream shared by the session's builds: it continues where the builds
\* before left it
RandomState_shared(c, e) == [seed |-> c.seeds[e], pos |-> Len(c.trace)]

\* np.random.RandomState(model.seeds[ens]): a fresh stream at position 0
RandomState(c, e) == [seed |-> c.seeds[e], pos |-> 0]

\* Distribution.sample(n, d, rng): n rows, each drawn among the options,
\* one stream value per row; d is <<>> for Python's None
dist_sample(dist, n, d, rng) ==
    LET w == RowLen(dist)
        pick(i) == 1 + (Stream(rng.seed, rng.pos + i - 1) % dist.shape[1])
    IN  [out |-> Array(<<n>> \o d,
                       [k \in 1..(n * w) |->
                           float64(Row(dist, pick(((k - 1) \div w) + 1))[((k - 1) % w) + 1])]),
         rng |-> [rng EXCEPT !.pos = @ + n]]

sample(dist, n, d, rng) ==
    IF IsDistribution(dist)
    THEN dist_sample(dist, n, d, rng)      \* its result is float64 already
    ELSE [out |-> asfloat64(dist), rng |-> rng]

----------------------------------------------------------------------------
(* The Ensemble objects the builds are given.                              *)

NeuronTypes == {"Direct", "RectifiedLinear"}

Process == [kind |-> "process", shape |-> <<>>, data |-> <<>>]

FromRows(rows, d) ==
    Array(<<Len(rows), d>>,
          [k \in 1..(Len(rows) * d) |-> rows[((k - 1) \div d) + 1][((k - 1) % d) + 1]])

Axis(d, j, v) == [i \in 1..d |-> IF i = j THEN v ELSE 0]

\* a vector of norm 5 (of norm 3 in one dimension)
Pyth(d) == [i \in 1..d |-> IF d = 1 THEN -3 ELSE IF i = 1 THEN 3 ELSE IF i = 2 THEN 4 ELSE 0]

\* vectors of integer norm and different magnitudes
VecRows(d) == <<Axis(d, 1, 2), Axis(d, d, -1), Pyth(d)>>

VecOptions(d) == FromRows(VecRows(d), d)

EvalPointSpecs(d) ==
    {Choice(VecOptions(d))}
    \cup {FromRows([i \in 1..r |-> [j \in 1..d |-> i + j - 3]], d) : r \in 1..MaxPoints}
    \cup {Array(<<d>>, [j \in 1..d |-> j]), Array(<<1, 1, d>>, [j \in 1..d |-> j])}

EncoderSpecs(n, d) ==
    {Choice(VecOptions(d)),
     FromRows([i \in 1..n |-> VecRows(d)[((i + 1) % 3) + 1]], d),
     FromRows([i \in 1..n |-> Axis(d, 1, 4 * (i - 1))], d)}   \* row 1 is zero

GainSpecs(n) ==
    {None, Choice(Array(<<3>>, <<1, 2, 3>>)), Array(<<n>>, [i \in 1..n |-> i])}

BiasSpecs(n) ==
    {None, Choice(Array(<<2>>, <<0, 1>>)), Array(<<n>>, [i \in 1..n |-> 1 - i])}

EnsembleSpecs ==
    UNION { UNION {
        [neuron_type : NeuronTypes,
         dimensions : {d},
         n_neurons : {n},
         radius : Radii,
         eval_points : EvalPointSpecs(d),
         n_eval_points : {<<>>} \cup {<<k>> : k \in 1..MaxPoints},
         encoders : EncoderSpecs(n, d),
         gain : GainSpecs(n),
         bias : BiasSpecs(n),
         max_rates : {Choice(Array(<<2>>, <<2, 4>>))},
         intercepts : {Choice(Array(<<2>>, <<0, -1>>))},
         noise : {None, Process}]
        : n \in 1..MaxNeurons } : d \in 1..MaxDim }

\* default_n_eval_points(n_neurons, dimensions), scaled to the model's sizes
default_n_eval_points(n_neurons, dimensions) ==
    IF dimensions > 2 * n_neurons THEN dimensions ELSE 2 * n_neurons

\* NeuronType.gain_bias(max_rates, intercepts): the tuning curve inversion
\* (RectifiedLinear: gain = max_rates / (1 - intercepts), bias = -intercepts * gain)
gain_bias(neuron_type, max_rates, intercepts) ==
    IF neuron_type = "Direct" THEN [gain |-> None, bias |-> None]
    ELSE LET g == [k \in 1..Len(max_rates.data) |->
                      RDiv(max_rates.data[k], RAdd(float64(1), RNeg(intercepts.data[k])))]
         IN  [gain |-> Array(max_rates.shape, g),
              bias |-> Array(max_rates.shape,
                             [k \in 1..Len(g) |-> RMul(RNeg(intercepts.data[k]), g[k])])]

----------------------------------------------------------------------------
(* The build context.  A context c is one session's                        *)
(* [seeds, sig, operators, params, nsig, warnings, trace].                 *)

Event(ev, obj, what, e, n) == [ev |-> ev, obj |-> obj, what |-> what, e |-> e, n |-> n]

Log(c, ev, obj, what, e, n) == [c EXCEPT !.trace = Append(@, Event(ev, obj, what, e, n))]

\* warnings.warn(...)
warn(c, e, message) ==
    Log([c EXCEPT !.warnings = Append(@, [e |-> e, message |-> message])],
        "warn", "", message, e, 0)

\* Signal(initial_value, name=..., readonly=...): a new buffer; id is its identity
Signal(c, initial_value, name, readonly) ==
    [id |-> c.nsig + 1, initial_value |-> initial_value, name |-> name,
     readonly |-> readonly]

Allocated(c) == [c EXCEPT !.nsig = @ + 1]

\* model.sig[obj][role] = s
SetSig(c, obj, e, role, s) ==
    LET key == <<obj, e, role>>
    IN  Log([c EXCEPT !.sig = [k \in DOMAIN @ \cup {key} |-> IF k = key THEN s ELSE @[k]]],
            "sig", obj, role, e, s.id)

\* the operators of nengo.builder.operator, by the signals they touch
Operator(op, sets, incs, reads, tag) ==
    [op |-> op, sets |-> sets, incs |-> incs, reads |-> reads, tag |-> tag]

Reset(dst) == Operator("Reset", <<dst.id>>, <<>>, <<>>, "")

Copy(src, dst) == Operator("Copy", <<dst.id>>, <<>>, <<src.id>>, "")

DotInc(A, X, Y, tag) == Operator("DotInc", <<>>, <<Y.id>>, <<A.id, X.id>>, tag)

\* model.add_op(op)
add_op(c, e, op) ==
    Log([c EXCEPT !.operators = Append(@, op)], "add_op", "", op.op, e, Len(c.operators) + 1)

\* model.build(ens.neuron_type, ens.neurons): the neuron model's operator,
\* reading the neurons' input and setting their output
build_neuron_type(c, e) ==
    add_op(Log(c, "build", "Neurons", "neuron_type", e, 0), e,
           Operator("SimNeurons", <<c.sig[<<"Neurons", e, "out">>].id>>, <<>>,
                    <<c.sig[<<"Neurons", e, "in">>].id>>, ""))

\* model.build(ens.noise, sig_out=..., inc=True): the process's operator,
\* incrementing sig_out
build_noise(c, e, sig_out) ==
    add_op(Log(c, "build", "Neurons", "noise", e, 0), e,
           Operator("SimProcess", <<>>, <<sig_out.id>>, <<>>, ""))

----------------------------------------------------------------------------
(* gen_eval_points, get_gain_bias and build_ensemble.  Each returns the    *)
(* context it leaves and, in exc, the exception it raised ("" for none).   *)

\* a check that lets arrays of more than 2 dimensions through
assert_ndim_at_least(a) == ndim(a) >= 2

\* assert eval_points.ndim == 2
assert_ndim(a) == ndim(a) = 2

\* the scaling left out
scale_by_radius_skipped(a, radius) == a

\* eval_points *= ens.radius
scale_by_radius(a, radius) == Array(a.shape, [k \in 1..Len(a.data) |-> RMul(a.data[k], float64(radius))])

gen_eval_points(c, e, eval_points, rng, scale_eval_points) ==
    LET E == ens[e]
        n_points == IF E.n_eval_points # <<>> THEN E.n_eval_points[1]
                    ELSE default_n_eval_points(E.n_neurons, E.dimensions)
        drawn == dist_sample(eval_points, n_points, <<E.dimensions>>, rng)
        c1 == IF E.n_eval_points # <<>> /\ eval_points.shape[1] # E.n_eval_points[1]
              THEN warn(c, e, "Number of eval_points doesn't match n_eval_points")
              ELSE c
        converted == asfloat64(eval_points)
        c2 == Log(c1, "assert", "", "ndim", e, ndim(converted))
        scaled(cc, a) ==
            IF scale_eval_points
            THEN [c |-> Log(cc, "scale", "", "eval_points", e, E.radius),
                  out |-> scale_by_radius(a, E.radius)]
            ELSE [c |-> cc, out |-> a]
    IN  IF IsDistribution(eval_points)
        THEN LET r == scaled(Log(c, "draw", "", "eval_points", e, rng.pos), drawn.out)
             IN  [c |-> r.c, exc |-> "", out |-> r.out, rng |-> drawn.rng]
        ELSE IF ~assert_ndim(converted)
        THEN [c |-> c2, exc |-> "AssertionError", out |-> None, rng |-> rng]
        ELSE LET r == scaled(c2, converted)
             IN  [c |-> r.c, exc |-> "", out |-> r.out, rng |-> rng]

BothGiven(E) == ~IsNone(E.gain) /\ ~IsNone(E.bias)

\* only gain looked at
OneGiven_gain_only(E) == ~IsNone(E.gain)

OneGiven(E) == ~IsNone(E.gain) \/ ~IsNone(E.bias)

get_gain_bias(c, e, rng) ==
    LET E == ens[e]
        gain == sample(E.gain, E.n_neurons, <<>>, rng)
        bias == sample(E.bias, E.n_neurons, <<>>, gain.rng)
        max_rates == sample(E.max_rates, E.n_neurons, <<>>, rng)
        intercepts == sample(E.intercepts, E.n_neurons, <<>>, max_rates.rng)
        solved == gain_bias(E.neuron_type, max_rates.out, intercepts.out)
        drew(cc, spec, what, r) ==
            IF IsDistribution(spec) THEN Log(cc, "draw", "", what, e, r.pos) ELSE cc
    IN  IF BothGiven(E)
        THEN [c |-> drew(drew(c, E.gain, "gain", rng), E.bias, "bias", gain.rng),
              exc |-> "", gain |-> gain.out, bias |-> bias.out,
              max_rates |-> None, intercepts |-> None, rng |-> bias.rng]
        ELSE IF OneGiven(E)
        THEN [c |-> c, exc |-> "NotImplementedError", gain |-> None, bias |-> None,
              max_rates |-> None, intercepts |-> None, rng |-> rng]
        ELSE [c |-> drew(drew(c, E.max_rates, "max_rates", rng),
                         E.intercepts, "intercepts", max_rates.rng),
              exc |-> "", gain |-> solved.gain, bias |-> solved.bias,
              max_rates |-> max_rates.out, intercepts |-> intercepts.out,
              rng |-> intercepts.rng]

BuiltEnsemble(eval_points, encoders, intercepts, max_rates, scaled_encoders, gain, bias) ==
    [eval_points |-> eval_points, encoders |-> encoders, intercepts |-> intercepts,
     max_rates |-> max_rates, scaled_encoders |-> scaled_encoders, gain |-> gain,
     bias |-> bias]

\* "Set up signal": the ensemble's input and the Reset on it
set_up_signal(c, e) ==
    LET s == Signal(c, zeros(ens[e].dimensions), <<e, "signal">>, FALSE)
        c1 == SetSig(Allocated(c), "Ensemble", e, "in", s)
    IN  add_op(c1, e, Reset(c1.sig[<<"Ensemble", e, "in">>]))

\* encoders /= npext.norm(encoders, axis=1, keepdims=True)
normalize_rows(encoders) ==
    LET norms == norm(encoders)
    IN  Array(encoders.shape,
              [k \in 1..Len(encoders.data) |->
                  RDiv(encoders.data[k], norms.data[((k - 1) \div encoders.shape[2]) + 1])])

\* "Set up encoders"
set_up_encoders(c, e, rng) ==
    LET E == ens[e]
        drawn == sample(E.encoders, E.n_neurons, <<E.dimensions>>, rng)
    IN  IF E.neuron_type = "Direct"
        THEN [c |-> c, out |-> normalize_rows(identity(E.dimensions)), rng |-> rng]
        ELSE IF IsDistribution(E.encoders)
        THEN [c |-> Log(c, "draw", "", "encoders", e, rng.pos),
              out |-> normalize_rows(drawn.out), rng |-> drawn.rng]
        ELSE [c |-> c, out |-> normalize_rows(asfloat64(E.encoders)), rng |-> rng]

\* "Build the neurons": the neurons' signals and operators
build_neurons(c, e, bias) ==
    LET E == ens[e]
        nin == <<"Neurons", e, "in">>
        nout == <<"Neurons", e, "out">>
    IN  IF E.neuron_type = "Direct"
        THEN LET c1 == SetSig(Allocated(c), "Neurons", e, "in",
                              Signal(c, zeros(E.dimensions), <<e, "neuron_in">>, FALSE))
                 c2 == SetSig(c1, "Neurons", e, "out", c1.sig[nin])
             IN  add_op(c2, e, Reset(c2.sig[nin]))
        ELSE LET c1 == SetSig(Allocated(c), "Neurons", e, "in",
                              Signal(c, zeros(E.n_neurons), <<e, "neuron_in">>, FALSE))
                 c2 == SetSig(Allocated(c1), "Neurons", e, "out",
                              Signal(c1, zeros(E.n_neurons), <<e, "neuron_out">>, FALSE))
                 bias_sig == Signal(c2, bias, <<e, "bias">>, TRUE)
                 c3 == add_op(Allocated(c2), e, Copy(bias_sig, c2.sig[nin]))
             IN  build_neuron_type(c3, e)

\* the gain applied in pass-through mode too
scale_encoders_always(E, encoders, gain) ==
    IF IsNone(gain) THEN encoders
    ELSE Array(encoders.shape,
               [k \in 1..Len(encoders.data) |->
                   RMul(encoders.data[k],
                        RDiv(gain.data[((((k - 1) \div encoders.shape[2])) % Len(gain.data)) + 1],
                             float64(E.radius)))])

\* the radius left out of the scaling
scale_encoders_no_radius(E, encoders, gain) ==
    IF E.neuron_type = "Direct" THEN encoders
    ELSE Array(encoders.shape,
               [k \in 1..Len(encoders.data) |->
                   RMul(encoders.data[k], gain.data[((k - 1) \div encoders.shape[2]) + 1])])

\* "Scale the encoders"
scale_encoders(E, encoders, gain) ==
    IF E.neuron_type = "Direct" THEN encoders
    ELSE Array(encoders.shape,
               [k \in 1..Len(encoders.data) |->
                   RMul(encoders.data[k],
                        RDiv(gain.data[((k - 1) \div encoders.shape[2]) + 1],
                             float64(E.radius)))])

\* model.sig[ens]['encoders'] = Signal(scaled_encoders, ..., readonly=True)
register_encoders(c, e, scaled_encoders) ==
    SetSig(Allocated(c), "Ensemble", e, "encoders",
           Signal(c, scaled_encoders, <<e, "scaled_encoders">>, TRUE))

\* "Inject noise if specified"
inject_noise(c, e) ==
    IF ~IsNone(ens[e].noise) THEN build_noise(c, e, c.sig[<<"Neurons", e, "in">>])
    ELSE c

\* "Create output signal, using built Neurons": the encoding DotInc
encoding_op(c, e) ==
    add_op(c, e, DotInc(c.sig[<<"Ensemble", e, "encoders">>],
                        c.sig[<<"Ensemble", e, "in">>],
                        c.sig[<<"Neurons", e, "in">>], "encoding"))

\* the output taken from the neurons' input
set_output_from_input(c, e) == SetSig(c, "Ensemble", e, "out", c.sig[<<"Neurons", e, "in">>])

\* "Output is neural output"
set_output(c, e) == SetSig(c, "Ensemble", e, "out", c.sig[<<"Neurons", e, "out">>])

\* model.params[ens] = BuiltEnsemble(...)
set_params(c, e, record) ==
    Log([c EXCEPT !.params = [k \in DOMAIN @ \cup {e} |-> IF k = e THEN record ELSE @[k]]],
        "params", "Ensemble", "BuiltEnsemble", e, 0)

\* the order the docstring gives (8. encoding, 9. noise)
wire_noise_last(c, e, scaled_encoders) ==
    set_output(inject_noise(encoding_op(register_encoders(c, e, scaled_encoders), e), e), e)

\* the build from the encoders signal to the output signal
wire(c, e, scaled_encoders) ==
    set_output(encoding_op(inject_noise(register_encoders(c, e, scaled_encoders), e), e), e)

build_ensemble(c, e) ==
    LET rng == RandomState(c, e)
        pts == gen_eval_points(c, e, ens[e].eval_points, rng, TRUE)
    IN  IF pts.exc # "" THEN [c |-> pts.c, exc |-> pts.exc]
        ELSE LET c1 == set_up_signal(pts.c, e)
                 enc == set_up_encoders(c1, e, pts.rng)
                 gb == get_gain_bias(enc.c, e, enc.rng)
             IN  IF gb.exc # "" THEN [c |-> gb.c, exc |-> gb.exc]
                 ELSE LET scaled_encoders == scale_encoders(ens[e], enc.out, gb.gain)
                          c2 == wire(build_neurons(gb.c, e, gb.bias), e, scaled_encoders)
                      IN  [c |-> set_params(c2, e,
                                    BuiltEnsemble(pts.out, enc.out, gb.intercepts,
                                                  gb.max_rates, scaled_encoders,
                                                  gb.gain, gb.bias)),
                           exc |-> "ok"]

----------------------------------------------------------------------------
(* The state machine.                                                      *)

Context(m) ==
    [seeds |-> model[m].seeds, sig |-> model[m].sig, operators |-> model[m].operators,
     params |-> model[m].params, nsig |-> model[m].nsig,
     warnings |-> warnings[m], trace |-> trace[m]]

EmptyModel(seeds) ==
    [seeds |-> seeds, sig |-> <<>>, operators |-> <<>>, params |-> <<>>, nsig |-> 0]

\* Builder.build(model, ens) on an ensemble the session has not built
BuildEnsemble(m, e) ==
    /\ raised[m][e] = "unbuilt"
    /\ \E r \in {build_ensemble(Context(m), e)} :
           /\ model' = [model EXCEPT ![m] =
                  [seeds |-> r.c.seeds, sig |-> r.c.sig, operators |-> r.c.operators,
                   params |-> r.c.params, nsig |-> r.c.nsig]]
           /\ warnings' = [warnings EXCEPT ![m] = r.c.warnings]
           /\ trace' = [trace EXCEPT ![m] = r.c.trace]
           /\ raised' = [raised EXCEPT ![m][e] = r.exc]
    /\ UNCHANGED ens

Next == \E m \in DOMAIN model : \E e \in DOMAIN ens : BuildEnsemble(m, e)

InitWith(sessions, ensembles, specs, seedtables) ==
    /\ ens \in [ensembles -> specs]
    /\ \E seeds \in [sessions -> seedtables] :
           model = [m \in sessions |-> EmptyModel(seeds[m])]
    /\ raised = [m \in sessions |-> [e \in ensembles |-> "unbuilt"]]
    /\ warnings = [m \in sessions |-> <<>>]
    /\ trace = [m \in sessions |-> <<>>]

\* one session building one ensemble, of any of the specs
Init == InitWith({1}, {1}, EnsembleSpecs, [{1} -> 1..NumSeeds])

Spec == Init /\ [][Next]_vars

\* the specs of the ensembles built side by side in two sessions: of the
\* largest size, all that is drawn is drawn from the stream, and the build
\* succeeds, fails on the eval points or fails on gain and bias
SessionSpecs ==
    {E \in EnsembleSpecs :
        /\ E.dimensions = MaxDim /\ E.n_neurons = MaxNeurons /\ E.radius = 2
        /\ E.n_eval_points = <<>> /\ IsNone(E.noise)
        /\ (IsDistribution(E.eval_points) \/ ndim(E.eval_points) = 3)
        /\ IsDistribution(E.encoders)
        /\ (IsNone(E.gain) \/ IsDistribution(E.gain))
        /\ (IsNone(E.bias) \/ (IsDistribution(E.bias) /\ ~IsNone(E.gain)))}

\* the seed of ensemble 1 is any in either session; ensemble 2, built before
\* or after it, has one seed
SessionSeeds == {t \in [{1, 2} -> 1..NumSeeds] : t[2] = 1}

\* two sessions, each with a seed table of its own, each building the same
\* two ensembles in any order
InitSessions == InitWith(Sessions, {1, 2}, SessionSpecs, SessionSeeds)

SpecSessions == InitSessions /\ [][Next]_vars

----------------------------------------------------------------------------
(* What the claims speak of.                                               *)

Errors == {"AssertionError", "NotImplementedError"}

Attempted(m, e) == raised[m][e] # "unbuilt"

Built(m, e) == raised[m][e] = "ok"

Builds == {me \in (DOMAIN model) \X (DOMAIN ens) : Attempted(me[1], me[2])}

HasSig(m, obj, e, role) == <<obj, e, role>> \in DOMAIN model[m].sig

SigOf(m, obj, e, role) == model[m].sig[<<obj, e, role>>]

HasParams(m, e) == e \in DOMAIN model[m].params

ExactlyOne(E) == IsNone(E.gain) # IsNone(E.bias)

LiteralPoints(E) == ~IsDistribution(E.eval_points)

\* the effects of the build of e in session m, in order
Events(m, e) == SelectSeq(trace[m], LAMBDA x : x.e = e)

Where(T, ev, obj, what) ==
    {i \in 1..Len(T) : T[i].ev = ev /\ T[i].obj = obj /\ T[i].what = what}

\* the operators the build of e registered, in order
OpsOf(m, e) ==
    LET A == SelectSeq(Events(m, e), LAMBDA x : x.ev = "add_op")
    IN  [i \in 1..Len(A) |-> model[m].operators[A[i].n]]

Before(I, J) == \A i \in I : \A j \in J : i < j

----------------------------------------------------------------------------
(* C1 as claimed: whenever exactly one of gain and bias is given, the      *)
(* build fails with NotImplementedError, and leaves no 'encoders' signal   *)
(* and no result record.                                                   *)
C1_AlwaysNotImplemented ==
    \A me \in Builds :
        LET m == me[1]  e == me[2] IN
        ExactlyOne(ens[e]) =>
            /\ raised[m][e] = "NotImplementedError"
            /\ ~HasSig(m, "Ensemble", e, "encoders")
            /\ ~HasParams(m, e)

(* C1, amended: whenever exactly one of gain and bias is given the build   *)
(* fails, whatever the neuron model: with AssertionError when the eval     *)
(* points are a literal array that is not 2-dimensional (gen_eval_points   *)
(* runs first), with NotImplementedError otherwise; and it leaves no       *)
(* 'encoders' signal and no result record.                                 *)
C1_ExactlyOneFails ==
    \A me \in Builds :
        LET m == me[1]  e == me[2]  E == ens[me[2]] IN
        ExactlyOne(E) =>
            /\ raised[m][e] = IF LiteralPoints(E) /\ ndim(E.eval_points) # 2
                              THEN "AssertionError" ELSE "NotImplementedError"
            /\ ~HasSig(m, "Ensemble", e, "encoders")
            /\ ~HasParams(m, e)

C1_Witness ==
    \E me \in Builds :
        /\ ExactlyOne(ens[me[2]])
        /\ IsNone(ens[me[2]].gain)
        /\ ens[me[2]].neuron_type = "Direct"
        /\ raised[me[1]][me[2]] = "NotImplementedError"

(* C2: a build that aborts with a fatal error leaves the context's signal  *)
(* registry, operator list and result table as they were before it.        *)
C2_FailedBuildLeavesNothing ==
    [][\A m \in DOMAIN model : \A e \in DOMAIN ens :
          (raised[m][e] = "unbuilt" /\ raised'[m][e] \in Errors) =>
              /\ model'[m].sig = model[m].sig
              /\ model'[m].operators = model[m].operators
              /\ model'[m].params = model[m].params]_vars

(* C3: after a successful build of a pass-through ensemble of dimension D, *)
(* the neurons' 'in' and 'out' and the ensemble's 'out' are one buffer of  *)
(* dimension D, encoders and scaled_encoders are the D x D identity        *)
(* whatever the gain, and the build registered exactly: Reset of the       *)
(* ensemble input, Reset of the neuron input, the noise operator if noise  *)
(* is configured, the encoding DotInc; no Copy, no neuron sub-builder.     *)
C3_PassThrough ==
    \A me \in Builds :
        LET m == me[1]  e == me[2]  E == ens[me[2]]
            ops == OpsOf(m, e)
            nin == SigOf(m, "Neurons", e, "in")
        IN  (Built(m, e) /\ E.neuron_type = "Direct") =>
            /\ SigOf(m, "Neurons", e, "out").id = nin.id
            /\ SigOf(m, "Ensemble", e, "out").id = nin.id
            /\ nin.initial_value.shape = <<E.dimensions>>
            /\ model[m].params[e].scaled_encoders = identity(E.dimensions)
            /\ model[m].params[e].encoders = identity(E.dimensions)
            /\ [i \in 1..Len(ops) |-> ops[i].op] =
                   IF IsNone(E.noise) THEN <<"Reset", "Reset", "DotInc">>
                   ELSE <<"Reset", "Reset", "SimProcess", "DotInc">>
            /\ ops[1].sets = <<SigOf(m, "Ensemble", e, "in").id>>
            /\ ops[2].sets = <<nin.id>>
            /\ Where(Events(m, e), "build", "Neurons", "neuron_type") = {}

C3_Witness ==
    \E me \in Builds :
        /\ Built(me[1], me[2])
        /\ ens[me[2]].neuron_type = "Direct"
        /\ ens[me[2]].dimensions > 1
        /\ ~IsNone(ens[me[2]].noise)
        /\ ~IsNone(model[me[1]].params[me[2]].gain)
        /\ model[me[1]].params[me[2]].gain.data[1] # float64(1)

----------------------------------------------------------------------------
(* C5 as claimed: a literal 2-dimensional eval point array whose row count *)
(* differs from n_eval_points does not make the build fail: a warning is   *)
(* emitted, eval_points has the literal's rows, scaled by the radius, and  *)
(* the warning and the shape check come before the scaling.                *)
Mismatch(E) ==
    /\ LiteralPoints(E) /\ ndim(E.eval_points) = 2
    /\ E.n_eval_points # <<>> /\ E.eval_points.shape[1] # E.n_eval_points[1]

C5_WarnedScaled(m, e) ==
    LET E == ens[e]
        T == Events(m, e)
        warned == Where(T, "warn", "", "Number of eval_points doesn't match n_eval_points")
        checked == Where(T, "assert", "", "ndim")
        scaled == Where(T, "scale", "", "eval_points")
    IN  /\ \E w \in 1..Len(warnings[m]) : warnings[m][w].e = e
        /\ warned # {} /\ checked # {} /\ scaled # {}
        /\ Before(warned, checked) /\ Before(checked, scaled)
        /\ Built(m, e) =>
               /\ model[m].params[e].eval_points.shape = E.eval_points.shape
               /\ \A k \in 1..Len(E.eval_points.data) :
                      model[m].params[e].eval_points.data[k] =
                          Rat(E.eval_points.data[k] * E.radius, 1)

C5_MismatchNeverFails ==
    \A me \in Builds :
        Mismatch(ens[me[2]]) => (Built(me[1], me[2]) /\ C5_WarnedScaled(me[1], me[2]))

(* C5, amended: such a mismatch never makes gen_eval_points fail: the      *)
(* warning is emitted, then the shape is checked, then the points are      *)
(* scaled; the build fails only when exactly one of gain and bias is       *)
(* given, and otherwise records eval_points with the literal's rows, every *)
(* coordinate multiplied by the radius.                                    *)
C5_MismatchOnlyWarns ==
    \A me \in Builds :
        Mismatch(ens[me[2]]) =>
            /\ raised[me[1]][me[2]] # "AssertionError"
            /\ Built(me[1], me[2]) <=> ~ExactlyOne(ens[me[2]])
            /\ C5_WarnedScaled(me[1], me[2])

C5_Witness ==
    \E me \in Builds :
        /\ Mismatch(ens[me[2]])
        /\ Built(me[1], me[2])
        /\ ens[me[2]].radius = 2
        /\ ens[me[2]].eval_points.shape[1] > ens[me[2]].n_eval_points[1]
        /\ \E k \in 1..Len(ens[me[2]].eval_points.data) : ens[me[2]].eval_points.data[k] # 0

(* C6: a literal eval point array that is not 2-dimensional makes          *)
(* gen_eval_points fail with the shape error (AssertionError) and the      *)
(* build abort without a result record; a 2-dimensional literal never      *)
(* fails the shape check.                                                  *)
C6_ShapeError ==
    \A me \in Builds :
        LET m == me[1]  e == me[2]  E == ens[me[2]] IN
        LiteralPoints(E) =>
            IF ndim(E.eval_points) # 2
            THEN raised[m][e] = "AssertionError" /\ ~HasParams(m, e)
            ELSE raised[m][e] # "AssertionError"

C6_Witness ==
    \E me \in Builds :
        /\ LiteralPoints(ens[me[2]])
        /\ ndim(ens[me[2]].eval_points) = 3
        /\ raised[me[1]][me[2]] = "AssertionError"

----------------------------------------------------------------------------
\* the rows the encoders were made from: the literal, or the rows drawn at
\* the stream position the build drew the encoders at
SourceRows(m, e) ==
    LET E == ens[e]
        T == Events(m, e)
        at == CHOOSE i \in Where(T, "draw", "", "encoders") : TRUE
    IN  IF IsDistribution(E.encoders)
        THEN dist_sample(E.encoders, E.n_neurons, <<E.dimensions>>,
                         [seed |-> model[m].seeds[e], pos |-> T[at].n]).out
        ELSE asfloat64(E.encoders)

IsPositive(a) == a.n > 0 /\ a.d > 0

\* row i of a is a positive multiple of row i of b
SameDirection(a, b, i) ==
    /\ \A j, k \in 1..a.shape[2] :
           RMul(At(a, i, j), At(b, i, k)) = RMul(At(a, i, k), At(b, i, j))
    /\ IsPositive(SumSeq([j \in 1..a.shape[2] |-> RMul(At(a, i, j), At(b, i, j))]))

UnitRow(a, i) == SumSeq([j \in 1..a.shape[2] |-> Square(At(a, i, j))]) = float64(1)

IsZeroRow(a, i) == \A j \in 1..a.shape[2] : At(a, i, j) = float64(0)

(* C7: after a successful build with a neuron model that is not            *)
(* pass-through, every row of the recorded encoders has Euclidean norm 1   *)
(* and the direction of the sampled or literal row it was made from,       *)
(* whatever that row's magnitude.                                          *)
C7_UnitRows ==
    \A me \in Builds :
        LET m == me[1]  e == me[2] IN
        (Built(m, e) /\ ens[e].neuron_type # "Direct") =>
            \A i \in 1..ens[e].n_neurons :
                /\ UnitRow(model[m].params[e].encoders, i)
                /\ SameDirection(model[m].params[e].encoders, SourceRows(m, e), i)

(* C7 on the rows that have a direction: every row made from a sampled or  *)
(* literal row that is not zero has norm 1 and that row's direction; a     *)
(* zero row is recorded as nan.                                            *)
C7_NonZeroRowsUnit ==
    \A me \in Builds :
        LET m == me[1]  e == me[2] IN
        (Built(m, e) /\ ens[e].neuron_type # "Direct") =>
            \A i \in 1..ens[e].n_neurons :
                IF IsZeroRow(SourceRows(m, e), i)
                THEN \A j \in 1..ens[e].dimensions :
                         At(model[m].params[e].encoders, i, j) = NaN
                ELSE /\ UnitRow(model[m].params[e].encoders, i)
                     /\ SameDirection(model[m].params[e].encoders, SourceRows(m, e), i)

C7_Witness ==
    \E me \in Builds :
        /\ Built(me[1], me[2])
        /\ ens[me[2]].neuron_type # "Direct"
        /\ ens[me[2]].dimensions > 1
        /\ \E i \in 1..ens[me[2]].n_neurons :
               /\ ~IsZeroRow(SourceRows(me[1], me[2]), i)
               /\ ~UnitRow(SourceRows(me[1], me[2]), i)
               /\ \A j \in 1..ens[me[2]].dimensions : At(SourceRows(me[1], me[2]), i, j) # float64(0)

(* C8: in standard mode, after a successful build,                         *)
(* scaled_encoders[i][j] = encoders[i][j] * gain[i] / radius for the       *)
(* encoders and gain of the same record, and the read-only 'encoders'      *)
(* signal holds this scaled matrix.                                        *)
C8_ScaledEncoders ==
    \A me \in Builds :
        LET m == me[1]  e == me[2]  E == ens[me[2]]
            P == model[m].params[e]
        IN  (Built(m, e) /\ E.neuron_type # "Direct") =>
            /\ P.scaled_encoders.shape = <<E.n_neurons, E.dimensions>>
            /\ \A i \in 1..E.n_neurons : \A j \in 1..E.dimensions :
                   At(P.scaled_encoders, i, j) =
                       RDiv(RMul(At(P.encoders, i, j), P.gain.data[i]), float64(E.radius))
            /\ SigOf(m, "Ensemble", e, "encoders").initial_value = P.scaled_encoders
            /\ SigOf(m, "Ensemble", e, "encoders").readonly

C8_Witness ==
    \E me \in Builds :
        LET P == model[me[1]].params[me[2]] IN
        /\ Built(me[1], me[2])
        /\ ens[me[2]].neuron_type # "Direct"
        /\ ens[me[2]].radius = 2
        /\ ens[me[2]].n_neurons > 1
        /\ P.gain.data[1] # P.gain.data[2]
        /\ P.scaled_encoders # P.encoders
        /\ \A k \in 1..Len(P.encoders.data) : IsFinite(P.encoders.data[k])

----------------------------------------------------------------------------
\* the draws the build of e made from its stream, in order
Draws(m, e) == SelectSeq(Events(m, e), LAMBDA x : x.ev = "draw")

\* the place of each consumer in the order eval points, encoders, then
\* gain and bias (or max_rates and intercepts)
Rank(what) ==
    CASE what = "eval_points" -> 1
      [] what = "encoders" -> 2
      [] what \in {"gain", "max_rates"} -> 3
      [] what \in {"bias", "intercepts"} -> 4

(* C4: two sessions that hold the same seed for ensemble E record the same *)
(* eval_points, encoders, gain and bias for it, whatever else each session *)
(* built, successfully or not, before or after E; and every build draws    *)
(* from a stream that starts afresh, in the order eval points, encoders,   *)
(* then gain and bias (or max_rates and intercepts).                       *)
C4_Determinism ==
    \A e \in DOMAIN ens :
        /\ \A m1, m2 \in DOMAIN model :
               (/\ Built(m1, e) /\ Built(m2, e)
                /\ model[m1].seeds[e] = model[m2].seeds[e]) =>
                   /\ model[m1].params[e].eval_points = model[m2].params[e].eval_points
                   /\ model[m1].params[e].encoders = model[m2].params[e].encoders
                   /\ model[m1].params[e].gain = model[m2].params[e].gain
                   /\ model[m1].params[e].bias = model[m2].params[e].bias
        /\ \A m \in DOMAIN model :
               LET D == Draws(m, e) IN
               /\ D # <<>> => D[1].n = 0
               /\ \A i, j \in 1..Len(D) :
                      i < j => (Rank(D[i].what) < Rank(D[j].what) /\ D[i].n < D[j].n)

\* both sessions built ensemble 1 from the same seed; session 1 then failed
\* to build ensemble 2, session 2 had built ensemble 2 before ensemble 1
C4_Witness ==
    /\ DOMAIN model = Sessions
    /\ Built(1, 1) /\ Built(2, 1)
    /\ model[1].seeds[1] = model[2].seeds[1]
    /\ ens[1].neuron_type # "Direct"
    /\ Len(Draws(1, 1)) = 4
    /\ Attempted(1, 2) /\ Attempted(2, 2)
    /\ trace[1][1].e = 1
    /\ trace[2][1].e = 2

C10_Wired ==
    \A m \in DOMAIN model : \A e \in DOMAIN ens :
        HasParams(m, e) =>
            /\ Built(m, e)
            /\ \A k \in {<<"Ensemble", "in">>, <<"Ensemble", "encoders">>, <<"Ensemble", "out">>,
                         <<"Neurons", "in">>, <<"Neurons", "out">>} : HasSig(m, k[1], e, k[2])
            /\ SigOf(m, "Ensemble", e, "out").id = SigOf(m, "Neurons", e, "out").id
            /\ \E i \in 1..Len(model[m].operators) :
                   model[m].operators[i] = Reset(SigOf(m, "Ensemble", e, "in"))
            /\ \E i \in 1..Len(model[m].operators) :
                   /\ model[m].operators[i].op = "DotInc"
                   /\ model[m].operators[i].incs = <<SigOf(m, "Neurons", e, "in").id>>
            /\ Where(Events(m, e), "params", "Ensemble", "BuiltEnsemble") = {Len(Events(m, e))}

C10_Kept ==
    \A m \in DOMAIN model : \A e \in DOMAIN ens :
        HasParams(m, e) =>
            /\ e \in DOMAIN model'[m].params
            /\ model'[m].params[e] = model[m].params[e]

(* C10: over any sequence of builds, successful and failed, into one       *)
(* context: whenever the result record of E exists, E is completely wired  *)
(* (E:'in', E:'encoders', E:'out', neurons(E):'in' and neurons(E):'out'    *)
(* are registered, E:'out' is the buffer of neurons(E):'out', the          *)
(* operators hold the Reset of E:'in' and the DotInc into                  *)
(* neurons(E):'in'); the record is written once, as the last step of the   *)
(* build, and no later build, failed or not, removes or changes it.        *)
C10_RecordMeansWired == []C10_Wired /\ [][C10_Kept]_vars

\* session 1 built ensemble 1, then failed to build ensemble 2 half way
C10_Witness ==
    /\ HasParams(1, 1)
    /\ ens[1].neuron_type # "Direct"
    /\ raised[1][2] = "NotImplementedError"
    /\ trace[1][1].e = 1
    /\ trace[1][Len(trace[1])].e = 2
    /\ HasSig(1, "Ensemble", 2, "in")

====
